---- MODULE Spec2Model ----
(***************************************************************************)
(* A model of main.py, the structured-data validator: the three core       *)
(* functions load_data, load_schema and validate_data, the path check      *)
(* is_valid_file_path, and the command-line run main that wires them.      *)
(*                                                                         *)
(* Files are modelled by their state on disk (fs) and by an abstract text  *)
(* (a syntax tag and the value that syntax denotes); the parsers           *)
(* json.load, yaml.safe_load and ET.parse are operators on that text.      *)
(* jsonschema.validate is modelled on the keywords type, required and      *)
(* properties; lxml's XSD validation on the compile / re-parse /           *)
(* assertValid steps the XML branch performs.                              *)
(***************************************************************************)
EXTENDS Integers, Sequences, FiniteSets, TLC

\* Number of distinct property names a document or a schema may mention.
NumKeys == 2

Keys == 1..NumKeys

(***************************************************************************)
(* Python values.  One record shape for every value a parser can return:  *)
(*   k        the kind: None, int, list, map (a dict), str (a path         *)
(*            string), Element, ElementBadTag (an Element built in code    *)
(*            whose serialisation is not well-formed)                      *)
(*   f        members of a dict / children of an Element: per key, absent  *)
(*            or the kind of the member's value                            *)
(*   type     the dict's "type" member (absent when it has none)           *)
(*   required the dict's "required" member                                 *)
(*   props    the dict's "properties" member: per key, the "type" of the   *)
(*            sub-schema (absent when the key has none)                    *)
(*   p        for a str: the path it names                                 *)
(***************************************************************************)
NoMembers == [k \in Keys |-> "absent"]

Val(k, f, type, required, props, p) ==
    [k |-> k, f |-> f, type |-> type, required |-> required, props |-> props, p |-> p]

Plain(k) == Val(k, NoMembers, "absent", {}, NoMembers, "")

None == Plain("None")

\* A dict holding data members only.
DataMap(f) == Val("map", f, "absent", {}, NoMembers, "")

\* A dict holding schema keywords only.
SchemaMap(type, required, props) == Val("map", NoMembers, type, required, props, "")

Element(f) == Val("Element", f, "absent", {}, NoMembers, "")

PathStr(p) == Val("str", NoMembers, "absent", {}, NoMembers, p)

MemberKinds == {"absent", "int", "str"}

DataMaps == {DataMap(f) : f \in [Keys -> MemberKinds]}

SchemaTypes == {"absent", "object", "bogus"}

PropTypes == {"absent", "integer"}

\* Sub-schemas are given for the first property name only.
PropSchemas == {[k \in Keys |-> IF k = 1 THEN t ELSE "absent"] : t \in PropTypes}

SchemaMaps == {SchemaMap(t, r, ps) : t \in SchemaTypes, r \in SUBSET Keys, ps \in PropSchemas}

Elements == {Element(f) : f \in [Keys -> {"int", "str"}]}

(***************************************************************************)
(* File texts: the syntax the bytes are written in and the value denoted.  *)
(*   empty    a file of zero bytes                                         *)
(*   broken   text malformed in every format, such as {"name":             *)
(*   yamltag  YAML carrying a native-object tag (!!python/object)          *)
(*   json     JSON text (also valid YAML)                                  *)
(*   xml      a well-formed XML instance document                          *)
(*   xsd      a well-formed XML document that is an XSD                    *)
(***************************************************************************)
Text(syn, v) == [syn |-> syn, v |-> v]

DataTexts ==
    {Text("empty", None), Text("broken", None), Text("yamltag", None)}
    \cup {Text("json", v) : v \in {None, Plain("int"), Plain("list")} \cup DataMaps}
    \cup {Text("xml", v) : v \in Elements}

\* An XSD's content: props says which children must be xs:integer.
XsdDocs == {SchemaMap("absent", {}, ps) : ps \in PropSchemas}

SchemaTexts ==
    {Text("empty", None), Text("broken", None)}
    \cup {Text("json", v) : v \in {None, Plain("list")} \cup SchemaMaps}
    \cup {Text("xml", Element([k \in Keys |-> "int"]))}
    \cup {Text("xsd", v) : v \in XsdDocs}

(***************************************************************************)
(* Exceptions: a class name and a message.  Mro gives the classes an       *)
(* except clause naming that class or one of its bases matches.            *)
(***************************************************************************)
Exc(type, msg) == [type |-> type, msg |-> msg]

NoExc == Exc("none", "")

Mro(type) ==
    CASE type = "FileNotFoundError" -> {"FileNotFoundError", "OSError", "Exception"}
      [] type = "PermissionError" -> {"PermissionError", "OSError", "Exception"}
      [] type = "OSError" -> {"OSError", "Exception"}
      [] type = "JSONDecodeError" -> {"JSONDecodeError", "ValueError", "Exception"}
      [] type = "YAMLError" -> {"YAMLError", "Exception"}
      [] type = "ParseError" -> {"ParseError", "SyntaxError", "Exception"}
      [] type = "ValueError" -> {"ValueError", "Exception"}
      [] type = "TypeError" -> {"TypeError", "Exception"}
      [] type = "AttributeError" -> {"AttributeError", "Exception"}
      [] type = "NameError" -> {"NameError", "Exception"}
      [] type = "ModuleNotFoundError" -> {"ModuleNotFoundError", "ImportError", "Exception"}
      [] type = "ValidationError" -> {"ValidationError", "Exception"}
      [] type = "SchemaError" -> {"SchemaError", "Exception"}
      [] type = "XMLSyntaxError" ->
            {"XMLSyntaxError", "LxmlSyntaxError", "LxmlError", "SyntaxError", "Exception"}
      [] type = "XMLSchemaParseError" ->
            {"XMLSchemaParseError", "XMLSchemaError", "LxmlError", "Exception"}
      [] type = "DocumentInvalid" -> {"DocumentInvalid", "LxmlError", "Exception"}
      [] OTHER -> {}

IsInstance(e, cls) == cls \in Mro(e.type)

\* What a call produces: a returned value or a raised exception.
Returned(v) == [exc |-> NoExc, v |-> v]

Raised(type, msg) == [exc |-> Exc(type, msg), v |-> None]

(***************************************************************************)
(* The parsers.                                                            *)
(***************************************************************************)
\* json.load(f): JSONDecodeError (a ValueError) on anything but JSON text.
JsonLoad(t) ==
    IF t.syn = "json" THEN Returned(t.v)
    ELSE Raised("JSONDecodeError", "Expecting value")

\* yaml.safe_load(f): an empty stream is None, JSON text is YAML, markup
\* without a colon or a flow indicator is one plain scalar; the safe
\* constructor rejects native-object tags.
YamlSafeLoad(t) ==
    CASE t.syn = "empty" -> Returned(None)
      [] t.syn = "json" -> Returned(t.v)
      [] t.syn = "yamltag" -> Raised("YAMLError", "could not determine a constructor for the tag")
      [] t.syn = "broken" -> Raised("YAMLError", "while parsing a flow mapping")
      [] OTHER -> Returned(Plain("str"))

\* ET.parse(f).getroot(): ParseError on anything but well-formed markup.
EtParseRoot(t) ==
    IF t.syn \in {"xml", "xsd"} THEN Returned(Element(IF t.syn = "xml" THEN t.v.f ELSE NoMembers))
    ELSE Raised("ParseError", "syntax error: line 1, column 0")

(***************************************************************************)
(* jsonschema.validate(instance, schema), on the keywords type, required   *)
(* and properties.  It first checks the schema against its metaschema      *)
(* (SchemaError), then the instance against the schema (ValidationError).  *)
(***************************************************************************)
JsonTypeNames == {"object", "array", "string", "integer", "number", "boolean", "null"}

\* The JSON Schema type of a Python value (other: no JSON type).
JsonTypeOf(k) ==
    CASE k = "map" -> "object"
      [] k = "list" -> "array"
      [] k = "int" -> "integer"
      [] k = "str" -> "string"
      [] k = "None" -> "null"
      [] OTHER -> "other"

SchemaWellFormed(s) ==
    /\ s.k = "map"
    /\ s.type \in JsonTypeNames \cup {"absent"}
    /\ \A k \in Keys : s.props[k] \in JsonTypeNames \cup {"absent"}

\* Mutant: the required keyword is not enforced.
RequiredIgnored(inst, s) == TRUE

\* required applies to an object instance only.
RequiredOk(inst, s) ==
    inst.k = "map" => \A k \in s.required : inst.f[k] # "absent"

\* properties applies to the members an object instance has.
PropertiesOk(inst, s) ==
    inst.k = "map" =>
        \A k \in Keys :
            (inst.f[k] # "absent" /\ s.props[k] # "absent") => JsonTypeOf(inst.f[k]) = s.props[k]

TypeOk(inst, s) == s.type = "absent" \/ JsonTypeOf(inst.k) = s.type

Conforms(inst, s) == TypeOk(inst, s) /\ RequiredOk(inst, s) /\ PropertiesOk(inst, s)

JsonschemaValidate(inst, s) ==
    CASE s.k \in {"None", "int"} -> Raised("TypeError", "argument is not iterable")
      [] ~SchemaWellFormed(s) /\ s.k \notin {"None", "int"} ->
            Raised("SchemaError", "is not valid under any of the given schemas")
      [] SchemaWellFormed(s) /\ ~TypeOk(inst, s) -> Raised("ValidationError", "is not of type")
      [] SchemaWellFormed(s) /\ TypeOk(inst, s) /\ ~RequiredOk(inst, s) ->
            Raised("ValidationError", "is a required property")
      [] SchemaWellFormed(s) /\ TypeOk(inst, s) /\ RequiredOk(inst, s) /\ ~PropertiesOk(inst, s) ->
            Raised("ValidationError", "property is not of type")
      [] OTHER -> Returned(None)

(***************************************************************************)
(* lxml's XSD validation, as the XML branch of validate_data drives it.    *)
(* disk is the file system: disk.fs[p] the state of path p, disk.text[p]   *)
(* its content.                                                            *)
(***************************************************************************)
\* The message lxml attaches to DocumentInvalid.
LxmlDiagnostic == "Element 'item': 'abc' is not a valid value of the atomic type 'xs:integer'."

\* assertValid: every child the XSD types xs:integer holds an integer.
XsdConforms(elem, xsd) ==
    \A k \in Keys : xsd.props[k] = "integer" => elem.f[k] = "int"

\* Lines 137-144: the first step that raises, or None when all pass.
XmlValidateSteps(data, schema, disk, lxmlInstalled) ==
    CASE ~lxmlInstalled -> Raised("ModuleNotFoundError", "No module named 'lxml'")
      [] lxmlInstalled /\ schema.k # "str" -> Raised("TypeError", "cannot parse from this object")
      [] lxmlInstalled /\ schema.k = "str" /\ disk.fs[schema.p] # "ok" ->
            Raised("OSError", "Error reading file")
      [] lxmlInstalled /\ schema.k = "str" /\ disk.fs[schema.p] = "ok"
            /\ disk.text[schema.p].syn \notin {"xml", "xsd"} ->
            Raised("XMLSyntaxError", "Document is empty or malformed")
      [] lxmlInstalled /\ schema.k = "str" /\ disk.fs[schema.p] = "ok"
            /\ disk.text[schema.p].syn = "xml" ->
            Raised("XMLSchemaParseError", "The XML document is not a schema document")
      [] lxmlInstalled /\ schema.k = "str" /\ disk.fs[schema.p] = "ok"
            /\ disk.text[schema.p].syn = "xsd" ->
            ( CASE data.k = "ElementBadTag" -> Raised("XMLSyntaxError", "StartTag: invalid element name")
                [] data.k \notin {"Element", "ElementBadTag"} ->
                      Raised("AttributeError", "object has no attribute 'iter'")
                [] data.k = "Element" /\ ~XsdConforms(data, disk.text[schema.p].v) ->
                      Raised("DocumentInvalid", LxmlDiagnostic)
                [] OTHER -> Returned(None) )

(***************************************************************************)
(* Name lookup.  An except clause evaluates its class expression when an   *)
(* exception reaches it; a name bound neither in the function nor in the   *)
(* module raises NameError there.                                          *)
(***************************************************************************)
\* Names the module binds (imports of lines 1-9 and the functions).
ModuleGlobals ==
    {"argparse", "json", "ET", "yaml", "logging", "os", "jsonschema", "validate", "Path",
     "setup_argparse", "load_data", "load_schema", "validate_data", "is_valid_file_path", "main"}

\* Names bound in validate_data: its parameters, and what line 137 binds
\* once the import has succeeded.
ValidateDataLocals(imported) ==
    {"data", "schema", "file_type"} \cup (IF imported THEN {"lxml_ET"} ELSE {})

NameBound(name, locals) == name \in locals \cup ModuleGlobals

\* What validate_data ends with: the value returned (True, False, or
\* raised when an exception leaves it), the exception that leaves it, the
\* except clause that handled the fault and the message it logged.
Verdict(ret, exc, handler, msg) == [ret |-> ret, exc |-> exc, handler |-> handler, msg |-> msg]

\* Mutant: the outer try without its last clause, except Exception.
OuterHandlersNoCatchAll(e) ==
    CASE IsInstance(e, "ValidationError") -> Verdict("False", NoExc, "outer_ValidationError", e.msg)
      [] IsInstance(e, "SchemaError") -> Verdict("False", NoExc, "outer_SchemaError", e.msg)
      [] IsInstance(e, "ValueError") -> Verdict("False", NoExc, "outer_ValueError", e.msg)
      [] OTHER -> Verdict("raised", e, "none", "")

\* Mutant: a schema the validator rejects is taken for a schema that accepts
\* everything.
OuterHandlersSchemaErrorPasses(e) ==
    CASE IsInstance(e, "ValidationError") -> Verdict("False", NoExc, "outer_ValidationError", e.msg)
      [] IsInstance(e, "SchemaError") -> Verdict("True", NoExc, "outer_SchemaError", e.msg)
      [] IsInstance(e, "ValueError") -> Verdict("False", NoExc, "outer_ValueError", e.msg)
      [] OTHER -> Verdict("False", NoExc, "outer_Exception", e.msg)

\* Lines 157-168: the handlers of the outer try.
OuterHandlers(e) ==
    CASE IsInstance(e, "ValidationError") -> Verdict("False", NoExc, "outer_ValidationError", e.msg)
      [] IsInstance(e, "SchemaError") -> Verdict("False", NoExc, "outer_SchemaError", e.msg)
      [] IsInstance(e, "ValueError") -> Verdict("False", NoExc, "outer_ValueError", e.msg)
      [] IsInstance(e, "Exception") /\ ~IsInstance(e, "ValidationError")
            /\ ~IsInstance(e, "SchemaError") /\ ~IsInstance(e, "ValueError") ->
            Verdict("False", NoExc, "outer_Exception", e.msg)
      [] OTHER -> Verdict("raised", e, "none", "")

\* Lines 146-154: the handlers of the inner try.  The first clause names
\* lxml.etree.XMLSchemaError; its evaluation raises NameError out of the
\* inner try when lxml is not a bound name.
InnerHandlers(e, locals) ==
    CASE ~NameBound("lxml", locals) ->
            OuterHandlers(Exc("NameError", "name 'lxml' is not defined"))
      [] NameBound("lxml", locals) /\ IsInstance(e, "XMLSchemaError") ->
            Verdict("False", NoExc, "inner_XMLSchemaError", e.msg)
      [] NameBound("lxml", locals) /\ ~IsInstance(e, "XMLSchemaError")
            /\ IsInstance(e, "XMLSyntaxError") ->
            Verdict("False", NoExc, "inner_XMLSyntaxError", e.msg)
      [] NameBound("lxml", locals) /\ ~IsInstance(e, "XMLSchemaError")
            /\ ~IsInstance(e, "XMLSyntaxError") /\ IsInstance(e, "Exception") ->
            Verdict("False", NoExc, "inner_Exception", e.msg)
      [] OTHER -> OuterHandlers(e)

\* Lines 133-154: the XML branch.
ValidateXml(data, schema, disk, lxmlInstalled) ==
    LET r == XmlValidateSteps(data, schema, disk, lxmlInstalled)
    IN  IF r.exc = NoExc THEN Verdict("True", NoExc, "none", "")
        ELSE InnerHandlers(r.exc, ValidateDataLocals(lxmlInstalled))

\* Lines 127-132: the JSON and YAML branches.
ValidateStructured(data, schema) ==
    LET r == JsonschemaValidate(data, schema)
    IN  IF r.exc = NoExc THEN Verdict("True", NoExc, "none", "")
        ELSE OuterHandlers(r.exc)

\* validate_data(data, schema, file_type), lines 126-168.
ValidateData(data, schema, file_type, disk, lxmlInstalled) ==
    CASE file_type \in {"json", "yaml"} -> ValidateStructured(data, schema)
      [] file_type = "xml" -> ValidateXml(data, schema, disk, lxmlInstalled)
      [] OTHER -> OuterHandlers(Exc("ValueError", "Unsupported file type."))

\* The library entry points validate_data calls for a format tag.
ValidateInvokes(file_type) ==
    CASE file_type \in {"json", "yaml"} -> {"jsonschema.validate"}
      [] file_type = "xml" -> {"lxml.etree"}
      [] OTHER -> {}

(***************************************************************************)
(* The file system and the loaders.                                        *)
(***************************************************************************)
Paths == {"file_path", "schema_path"}

FileStates == {"ok", "missing", "unreadable"}

\* is_valid_file_path(p), lines 181-193: an existing, readable file.
IsValidFilePath(disk, p) == disk.fs[p] = "ok"

\* open(p, 'r'), lines 47 and 87.
Open(disk, p) ==
    CASE disk.fs[p] = "missing" -> Raised("FileNotFoundError", "No such file or directory")
      [] disk.fs[p] = "unreadable" -> Raised("PermissionError", "Permission denied")
      [] OTHER -> Returned(None)

\* Mutant: f.close() after the parse instead of a with block.
WithExitLeakOnRaise(handles, p, raised) == IF raised THEN handles ELSE handles \ {p}

\* Leaving the with block of lines 47 and 87 closes the file, whether the
\* block returned or raised.
WithExit(handles, p, raised) == handles \ {p}

\* Mutant: an unknown tag falls through to the JSON parser.
LoadDataDispatchDefaultJson(file_type, t) ==
    CASE file_type = "yaml" -> YamlSafeLoad(t)
      [] file_type = "xml" -> EtParseRoot(t)
      [] OTHER -> JsonLoad(t)

\* The body of load_data's with block, lines 48-57.
LoadDataDispatch(file_type, t) ==
    CASE file_type = "json" -> JsonLoad(t)
      [] file_type = "yaml" -> YamlSafeLoad(t)
      [] file_type = "xml" -> EtParseRoot(t)
      [] OTHER -> Raised("ValueError", "Unsupported file type.")

\* The body of load_schema's with block, lines 88-96.
LoadSchemaDispatch(file_type, t, schema_path) ==
    CASE file_type = "json" -> JsonLoad(t)
      [] file_type = "yaml" -> YamlSafeLoad(t)
      [] file_type = "xml" -> Returned(PathStr(schema_path))
      [] OTHER -> Raised("ValueError", "Unsupported schema file type.")

\* The parser a loader's body calls for a format tag.
LoadDataInvokes(file_type) ==
    CASE file_type = "json" -> {"json.load"}
      [] file_type = "yaml" -> {"yaml.safe_load"}
      [] file_type = "xml" -> {"ET.parse"}
      [] OTHER -> {}

LoadSchemaInvokes(file_type) ==
    CASE file_type = "json" -> {"json.load"}
      [] file_type = "yaml" -> {"yaml.safe_load"}
      [] OTHER -> {}

\* The exit status of the process once main has ended, lines 227-239:
\* nothing calls sys.exit, so it is 0 unless an exception left main.
ExitStatus(e) == IF e = NoExc THEN 0 ELSE 1

(***************************************************************************)
(* The state.                                                              *)
(***************************************************************************)
VARIABLES
    entry,          \* the function the run enters: main, or a core function called directly
    file_type,      \* the format tag
    disk,           \* the file system: fs[p] and text[p] per path
    lxmlInstalled,  \* whether import lxml.etree succeeds
    pc,             \* the statement about to run
    data,           \* main's data / validate_data's argument
    schema,         \* main's schema / validate_data's argument
    handles,        \* paths with an open file object
    exc,            \* the exception propagating out of the function just left
    verdict,        \* what validate_data ended with
    stdout,         \* the lines printed
    calls,          \* per function, how often it was entered
    invoked,        \* the parsers and validators invoked so far
    raisedBy,       \* the core functions that were left by an exception
    checked,        \* the paths is_valid_file_path accepted
    exitCode        \* the process's exit status, -1 while it runs

vars == <<entry, file_type, disk, lxmlInstalled, pc, data, schema, handles, exc, verdict,
          stdout, calls, invoked, raisedBy, checked, exitCode>>

\* --file_type, line 25.
ArgparseChoices == {"json", "xml", "yaml"}

\* Format tags a direct caller may pass; toml stands for any other tag.
FormatTags == ArgparseChoices \cup {"toml"}

Functions == {"load_data", "load_schema", "validate_data"}

NoVerdict == Verdict("unset", NoExc, "none", "")

\* Values a direct caller may pass to validate_data.
ArgData ==
    {None, Plain("int"), Plain("list"), Plain("ElementBadTag")} \cup DataMaps \cup Elements

ArgSchemas == {None, Plain("list"), PathStr("schema_path")} \cup SchemaMaps

\* Schema files that matter to the XML branch.
XmlSchemaTexts == {t \in SchemaTexts : t.syn \in {"broken", "xml", "xsd"}}

InitCommon ==
    /\ handles = {}
    /\ exc = NoExc
    /\ verdict = NoVerdict
    /\ stdout = <<>>
    /\ calls = [fn \in Functions |-> 0]
    /\ invoked = {}
    /\ raisedBy = {}
    /\ checked = {}
    /\ exitCode = -1
    /\ lxmlInstalled \in (IF file_type = "xml" THEN BOOLEAN ELSE {TRUE})

\* python main.py file_path schema_path --file_type T
InitMain ==
    /\ entry = "main"
    /\ file_type \in ArgparseChoices
    /\ disk \in [fs : [Paths -> FileStates],
                 text : {[p \in Paths |-> IF p = "file_path" THEN d ELSE s] :
                            d \in DataTexts, s \in SchemaTexts}]
    /\ pc = "check_file"
    /\ data = None
    /\ schema = None

\* load_data(file_path, T) or load_schema(schema_path, T) called directly.
InitLoader ==
    /\ entry \in {"load_data", "load_schema"}
    /\ file_type \in FormatTags
    /\ disk \in [fs : [Paths -> FileStates],
                 text : {[p \in Paths |-> IF p = "file_path" THEN d ELSE s] :
                            d \in DataTexts, s \in XmlSchemaTexts}]
    /\ pc = (IF entry = "load_data" THEN "ld_open" ELSE "ls_open")
    /\ data = None
    /\ schema = None

\* validate_data(data, schema, T) called directly.
InitValidate ==
    /\ entry = "validate_data"
    /\ file_type \in FormatTags
    /\ disk \in [fs : {f \in [Paths -> {"ok", "missing"}] : f["file_path"] = "ok"},
                 text : {[p \in Paths |-> IF p = "file_path" THEN Text("empty", None) ELSE s] :
                            s \in XmlSchemaTexts}]
    /\ pc = "validate"
    /\ data \in ArgData
    /\ schema \in ArgSchemas

Init == (InitMain \/ InitLoader \/ InitValidate) /\ InitCommon

\* Mutant: main carries on after a loader raised.
AfterCallSwallow(next, raised) == IF entry = "main" THEN next ELSE "returned"

\* Where control goes when a core function is left.
AfterCall(next, raised) ==
    IF entry = "main" THEN (IF raised THEN "except" ELSE next) ELSE "returned"

(***************************************************************************)
(* main, lines 196-224.                                                    *)
(***************************************************************************)
\* Lines 204-206.
CheckFilePath ==
    /\ pc = "check_file"
    /\ IF IsValidFilePath(disk, "file_path")
       THEN /\ pc' = "check_schema"
            /\ stdout' = stdout
            /\ checked' = checked \cup {"file_path"}
       ELSE /\ pc' = "exit"
            /\ stdout' = Append(stdout, "Invalid file path. Exiting.")
            /\ checked' = checked
    /\ UNCHANGED <<entry, file_type, disk, lxmlInstalled, data, schema, handles, exc, verdict,
                   calls, invoked, exitCode, raisedBy>>

\* Lines 207-209.
CheckSchemaPath ==
    /\ pc = "check_schema"
    /\ IF IsValidFilePath(disk, "schema_path")
       THEN /\ pc' = "ld_open"
            /\ stdout' = stdout
            /\ checked' = checked \cup {"schema_path"}
       ELSE /\ pc' = "exit"
            /\ stdout' = Append(stdout, "Invalid schema path. Exiting.")
            /\ checked' = checked
    /\ UNCHANGED <<entry, file_type, disk, lxmlInstalled, data, schema, handles, exc, verdict,
                   calls, invoked, exitCode, raisedBy>>

\* load_data is entered and opens the file (lines 46-47); a failed open is
\* logged and re-raised (lines 58-66).
LoadDataOpen ==
    /\ pc = "ld_open"
    /\ calls' = [calls EXCEPT !["load_data"] = @ + 1]
    /\ LET r == Open(disk, "file_path")
       IN  IF r.exc = NoExc
           THEN /\ handles' = handles \cup {"file_path"}
                /\ pc' = "ld_body"
                /\ exc' = exc
                /\ raisedBy' = raisedBy
           ELSE /\ handles' = handles
                /\ pc' = AfterCall("ls_open", TRUE)
                /\ exc' = r.exc
                /\ raisedBy' = raisedBy \cup {"load_data"}
    /\ UNCHANGED <<entry, file_type, disk, lxmlInstalled, data, schema, verdict, stdout,
                   invoked, exitCode, checked>>

\* The with block of load_data (lines 48-57), its exit, and the re-raising
\* handlers (lines 58-66).
LoadDataBody ==
    /\ pc = "ld_body"
    /\ LET r == LoadDataDispatch(file_type, disk.text["file_path"])
       IN  /\ invoked' = invoked \cup LoadDataInvokes(file_type)
           /\ handles' = WithExit(handles, "file_path", r.exc # NoExc)
           /\ data' = (IF r.exc = NoExc THEN r.v ELSE data)
           /\ exc' = r.exc
           /\ pc' = AfterCall("ls_open", r.exc # NoExc)
           /\ raisedBy' = (IF r.exc = NoExc THEN raisedBy ELSE raisedBy \cup {"load_data"})
    /\ UNCHANGED <<entry, file_type, disk, lxmlInstalled, schema, verdict, stdout, calls,
                   exitCode, checked>>

\* load_schema is entered and opens the file (lines 86-87, 97-105).
LoadSchemaOpen ==
    /\ pc = "ls_open"
    /\ calls' = [calls EXCEPT !["load_schema"] = @ + 1]
    /\ LET r == Open(disk, "schema_path")
       IN  IF r.exc = NoExc
           THEN /\ handles' = handles \cup {"schema_path"}
                /\ pc' = "ls_body"
                /\ exc' = exc
                /\ raisedBy' = raisedBy
           ELSE /\ handles' = handles
                /\ pc' = AfterCall("check_loaded", TRUE)
                /\ exc' = r.exc
                /\ raisedBy' = raisedBy \cup {"load_schema"}
    /\ UNCHANGED <<entry, file_type, disk, lxmlInstalled, data, schema, verdict, stdout,
                   invoked, exitCode, checked>>

\* The with block of load_schema (lines 88-96), its exit, and the
\* re-raising handlers (lines 97-105).
LoadSchemaBody ==
    /\ pc = "ls_body"
    /\ LET r == LoadSchemaDispatch(file_type, disk.text["schema_path"], "schema_path")
       IN  /\ invoked' = invoked \cup LoadSchemaInvokes(file_type)
           /\ handles' = WithExit(handles, "schema_path", r.exc # NoExc)
           /\ schema' = (IF r.exc = NoExc THEN r.v ELSE schema)
           /\ exc' = r.exc
           /\ pc' = AfterCall("check_loaded", r.exc # NoExc)
           /\ raisedBy' = (IF r.exc = NoExc THEN raisedBy ELSE raisedBy \cup {"load_schema"})
    /\ UNCHANGED <<entry, file_type, disk, lxmlInstalled, data, verdict, stdout, calls,
                   exitCode, checked>>

\* Mutant: or in place of and.
BothLoadedEither(d, s) == d # None \/ s # None

\* Line 215, and line 221 when either value is None.
BothLoaded(d, s) == d # None /\ s # None

CheckLoaded ==
    /\ pc = "check_loaded"
    /\ IF BothLoaded(data, schema)
       THEN /\ pc' = "validate"
            /\ stdout' = stdout
       ELSE /\ pc' = "exit"
            /\ stdout' = Append(stdout, "Failed to load data or schema.")
    /\ UNCHANGED <<entry, file_type, disk, lxmlInstalled, data, schema, handles, exc, verdict,
                   calls, invoked, exitCode, raisedBy, checked>>

\* The call of validate_data (line 216, or a direct call), lines 126-168.
ValidateDataCall ==
    /\ pc = "validate"
    /\ calls' = [calls EXCEPT !["validate_data"] = @ + 1]
    /\ invoked' = invoked \cup ValidateInvokes(file_type)
    /\ verdict' = ValidateData(data, schema, file_type, disk, lxmlInstalled)
    /\ exc' = verdict'.exc
    /\ pc' = AfterCall("print_verdict", verdict'.ret = "raised")
    /\ raisedBy' = (IF verdict'.ret = "raised" THEN raisedBy \cup {"validate_data"} ELSE raisedBy)
    /\ UNCHANGED <<entry, file_type, disk, lxmlInstalled, data, schema, handles, stdout,
                   exitCode, checked>>

\* Lines 216-219.
VerdictLine(v) ==
    IF v.ret = "True" THEN "Data validation successful." ELSE "Data validation failed."

PrintVerdict ==
    /\ pc = "print_verdict"
    /\ stdout' = Append(stdout, VerdictLine(verdict))
    /\ pc' = "exit"
    /\ UNCHANGED <<entry, file_type, disk, lxmlInstalled, data, schema, handles, exc, verdict,
                   calls, invoked, exitCode, raisedBy, checked>>

\* Mutant: the handler of line 223 passes without printing.
MainExceptSilent ==
    /\ pc = "except"
    /\ exc' = NoExc
    /\ pc' = "exit"
    /\ UNCHANGED <<entry, file_type, disk, lxmlInstalled, data, schema, handles, verdict,
                   stdout, calls, invoked, exitCode, raisedBy, checked>>

\* Lines 223-224: the exception is caught and reported; main returns.
MainExcept ==
    /\ pc = "except"
    /\ stdout' = Append(stdout, "An error occurred: " \o exc.msg)
    /\ exc' = NoExc
    /\ pc' = "exit"
    /\ UNCHANGED <<entry, file_type, disk, lxmlInstalled, data, schema, handles, verdict,
                   calls, invoked, exitCode, raisedBy, checked>>

\* main has returned (line 239) and the interpreter exits.
ProcessExit ==
    /\ pc = "exit"
    /\ exitCode' = ExitStatus(exc)
    /\ pc' = "done"
    /\ UNCHANGED <<entry, file_type, disk, lxmlInstalled, data, schema, handles, exc, verdict,
                   stdout, calls, invoked, raisedBy, checked>>

\* Another process removes a file while the run is under way.
EnvRemove ==
    /\ pc \notin {"done", "returned", "exit"}
    /\ \E p \in Paths :
        /\ disk.fs[p] = "ok"
        /\ disk' = [disk EXCEPT !.fs[p] = "missing"]
    /\ UNCHANGED <<entry, file_type, lxmlInstalled, pc, data, schema, handles, exc, verdict,
                   stdout, calls, invoked, raisedBy, checked, exitCode>>

Next ==
    \/ CheckFilePath
    \/ CheckSchemaPath
    \/ LoadDataOpen
    \/ LoadDataBody
    \/ LoadSchemaOpen
    \/ LoadSchemaBody
    \/ CheckLoaded
    \/ ValidateDataCall
    \/ PrintVerdict
    \/ MainExcept
    \/ ProcessExit
    \/ EnvRemove

Spec == Init /\ [][Next]_vars

(***************************************************************************)
(* The claims.                                                             *)
(***************************************************************************)
SupportedTags == {"json", "yaml", "xml"}

Loaders == {"load_data", "load_schema"}

ValidateCalled == calls["validate_data"] > 0

MalformedSchemaCase ==
    /\ ValidateCalled
    /\ \/ /\ file_type \in {"json", "yaml"}
          /\ schema.k \notin {"None", "int"}
          /\ ~SchemaWellFormed(schema)
       \/ /\ file_type = "xml"
          /\ lxmlInstalled
          /\ schema.k = "str"
          /\ disk.fs[schema.p] = "ok"
          /\ disk.text[schema.p].syn \in {"empty", "broken", "json", "xml"}

\* What validate_data returns for well-formed data that does not conform to
\* a well-formed schema: an object without the property the schema requires.
InvalidReturn ==
    ValidateData(DataMap(NoMembers), SchemaMap("object", {1}, NoMembers), "json", disk,
                 lxmlInstalled).ret

LacksRequired(d, s) == s.k = "map" /\ \E k \in s.required : d.f[k] = "absent"

\* validate_data was called on a JSON or YAML document (None is no document:
\* main does not pass it on).
StructuredCall == ValidateCalled /\ file_type \in {"json", "yaml"} /\ data # None

\* C3 as stated: for every JSON or YAML document that lacks a property the
\* schema lists as required, validate returns Invalid (False through the
\* ValidationError clause), never Valid and never SchemaError, whatever else
\* the schema and the document contain.
C3_MissingRequiredIsInvalid ==
    (StructuredCall /\ LacksRequired(data, schema)) =>
        (verdict.ret = "False" /\ verdict.handler = "outer_ValidationError")

\* C3 amended: for every JSON or YAML document that is a mapping and lacks a
\* property the schema lists as required, validate_data returns False, never
\* True; the fault is the ValidationError when the schema is itself
\* well-formed and the SchemaError when it is not.
C3_MissingRequiredInMappingIsRejected ==
    (StructuredCall /\ data.k = "map" /\ LacksRequired(data, schema)) =>
        /\ verdict.ret = "False"
        /\ verdict.handler =
              (IF SchemaWellFormed(schema) THEN "outer_ValidationError" ELSE "outer_SchemaError")

\* A run of main on a mapping that has one required property and lacks the
\* other, under a well-formed schema.
C3_Witness ==
    /\ StructuredCall
    /\ entry = "main"
    /\ pc = "done"
    /\ data.k = "map"
    /\ SchemaWellFormed(schema)
    /\ schema.required = Keys
    /\ data.f[1] # "absent"
    /\ LacksRequired(data, schema)
    /\ verdict.msg = "is a required property"

UnsupportedLoad == Exc("ValueError", "Unsupported file type.")

UnsupportedSchemaLoad == Exc("ValueError", "Unsupported schema file type.")

UnsupportedVerdict == Verdict("False", NoExc, "outer_ValueError", "Unsupported file type.")

DirectCallLeft == pc = "returned" /\ file_type \notin SupportedTags

C6_OneVerdictLine ==
    entry = "main" =>
        /\ Len(stdout) <= 1
        /\ pc \in {"exit", "done"} <=> Len(stdout) = 1

\* A run that loaded both files, validated, and reported the failure.
C6_Witness ==
    /\ entry = "main"
    /\ pc = "done"
    /\ ValidateCalled
    /\ stdout = <<"Data validation failed.">>

\* C7: a run whose verdict is Valid ends with exit code 0 and a run with any
\* other outcome ends with a nonzero exit code.
C7_ExitCodeReflectsVerdict ==
    (entry = "main" /\ pc = "done") => (exitCode = 0 <=> verdict.ret = "True")

\* C8: load_data retains no open file handle once it is left, whether it
\* returned or raised: the data file is open only inside its with block,
\* and no handle at all is open while load_schema is entered or
\* validate_data runs.
C8_NoHandleRetained ==
    /\ "file_path" \in handles => pc = "ld_body"
    /\ pc \in {"ls_open", "validate", "check_loaded", "print_verdict", "except", "exit",
               "done", "returned"} => handles = {}

\* load_data opened the file, its parser raised, and the caller has control.
C8_Witness ==
    /\ entry = "load_data"
    /\ pc = "returned"
    /\ "load_data" \in raisedBy
    /\ invoked # {}
    /\ handles = {}

\* The XML branch compiled the schema and re-parsed the document, and the
\* document does not conform.
XmlNonconformingCase ==
    /\ ValidateCalled
    /\ file_type = "xml"
    /\ lxmlInstalled
    /\ schema.k = "str"
    /\ disk.fs[schema.p] = "ok"
    /\ disk.text[schema.p].syn = "xsd"
    /\ data.k = "Element"
    /\ ~XsdConforms(data, disk.text[schema.p].v)

\* C9: in the XML branch a conformance failure yields Invalid, handled by
\* one of the XML branch's own clauses, and the message reported is the
\* validation library's diagnostic, verbatim.
C9_ConformanceFailureKeepsDiagnostic ==
    XmlNonconformingCase =>
        /\ verdict.ret = "False"
        /\ verdict.handler \in {"inner_XMLSchemaError", "inner_XMLSyntaxError", "inner_Exception"}
        /\ verdict.msg = LxmlDiagnostic

\* C10: in main validate_data is invoked at most once, and only after both
\* path checks passed and both loaders returned a value other than None;
\* when a loader returns None the run prints "Failed to load data or
\* schema." and ends without validating.
C10_ValidateOnlyWhenBothLoaded ==
    entry = "main" =>
        /\ calls["validate_data"] <= 1
        /\ ValidateCalled =>
              /\ checked = Paths
              /\ calls["load_data"] = 1
              /\ calls["load_schema"] = 1
              /\ raisedBy \cap Loaders = {}
              /\ data # None
              /\ schema # None
        /\ ( /\ pc \in {"exit", "done"}
             /\ calls["load_schema"] = 1
             /\ raisedBy = {}
             /\ (data = None \/ schema = None) ) =>
              (stdout = <<"Failed to load data or schema.">> /\ ~ValidateCalled)

\* The data file holds the JSON literal null, which conforms to the loaded
\* schema, and the run ended without validating.
C10_Witness ==
    /\ entry = "main"
    /\ pc = "done"
    /\ file_type = "json"
    /\ disk.text["file_path"] = Text("json", None)
    /\ data = None
    /\ schema # None
    /\ SchemaWellFormed(schema)
    /\ Conforms(data, schema)
    /\ stdout = <<"Failed to load data or schema.">>
    /\ ~ValidateCalled

====
